---- MODULE Spec2Model ----
(***************************************************************************)
(* Model of the concurrency-relevant parts of the AzureRM provider code    *)
(* vendored in terraform-provider-pureport:                                *)
(*   - the DDoS Protection Plan resource (named locks on the plan and on   *)
(*     the virtual networks it references),                                *)
(*   - the Automation Account resource (no named locks),                   *)
(*   - the storage account key cache of ArmClient (config.go).             *)
(***************************************************************************)
EXTENDS Integers, Sequences, FiniteSets, TLC

(* ---------------------------- bounds ----------------------------------- *)
NumOps == 2          \* concurrently running resource operations
MaxVnetIDs == 2      \* longest virtual_network_ids list of a plan

NumCallers == 2      \* concurrently running getKeyForStorageAccount callers

Ops == 1..NumOps
Callers == 1..NumCallers

(* ---------------------------- inputs ----------------------------------- *)
PlanNames == {"a", "b"}
VnetNames == {"v1", "v2"}
AccountNames == {"acct"}
ArmClients == {"sub1", "sub2"}         \* ArmClient values, one per subscription
ResourceGroupNames == {"rg1", "rg2"}
StorageAccountNames == {"sa"}
StorageKeys == {"k1", "k2"}            \* key values the storage service hands out

azureDDoSProtectionPlanResourceName == "azurerm_ddos_protection_plan"
virtualNetworkResourceName == "azurerm_virtual_network"
automationAccountResourceName == "azurerm_automation_account"

\* A resource ID is modelled by the one path segment the handlers look up
\* in it. NoID is the empty ID "", BadID an ID parseAzureResourceID
\* rejects, NilID a nil *string of an API response.
MkID(segment, n) == [segment |-> segment, name |-> n]
NoID == MkID("", "")
BadID == MkID("?", "")
NilID == MkID("nil", "")

PlanID(n) == MkID("ddosProtectionPlans", n)
VnetID(n) == MkID("virtualNetworks", n)
AccountID(n) == MkID("automationAccounts", n)

\* parseAzureResourceID: an error for an ID that is not a resource path
\* (the empty ID included), otherwise the Path map of the ID.
parseAzureResourceID(id) ==
    IF id.segment \in {"", "?", "nil"}
    THEN [err |-> TRUE, Path |-> [s \in {} |-> ""]]
    ELSE [err |-> FALSE, Path |-> [s \in {id.segment} |-> id.name]]

\* id.Path[key]: a Go map lookup, "" for a missing key.
PathOf(parsed, key) == IF key \in DOMAIN parsed.Path THEN parsed.Path[key] ELSE ""

SeqsUpTo(S, n) == UNION {[1..k -> S] : k \in 0..n}

sliceContainsValue(s, v) == \E i \in 1..Len(s) : s[i] = v

\* extractVnetNames: the names of the virtual networks of
\* virtual_network_ids, in list order, each once; an error as soon as one
\* ID does not parse.
RECURSIVE extractLoop(_, _)
extractLoop(vnetIDs, vnetNames) ==
    IF vnetIDs = <<>> THEN [err |-> FALSE, names |-> vnetNames]
    ELSE LET vnetResourceID == parseAzureResourceID(Head(vnetIDs))
             vnetName == PathOf(vnetResourceID, "virtualNetworks")
         IN  IF vnetResourceID.err THEN [err |-> TRUE, names |-> <<>>]
             ELSE extractLoop(Tail(vnetIDs),
                              IF sliceContainsValue(vnetNames, vnetName)
                              THEN vnetNames
                              ELSE Append(vnetNames, vnetName))

extractVnetNames(vnetIDs) == extractLoop(vnetIDs, <<>>)

(* ---------------------------- state ------------------------------------ *)
VARIABLES
    pc,            \* pc[o]: position of operation o in its handler
    kind,          \* kind[o]: which handler o runs
    name,          \* name[o]: the handler's local `name`
    vnetsToLock,   \* vnetsToLock[o]: the handler's local `vnetsToLock`
    lockIdx,       \* lockIdx[o]: next index of azureRMLockMultipleByName's loop
    dId,           \* dId[o]: d.Id() of o's ResourceData
    err,           \* err[o]: what the handler returned
    attrs,         \* attrs[o]: the attributes of o's ResourceData
    getResponse,   \* getResponse[o]: the answer of client.Get the handler holds
    armMutexKV,    \* armMutexKV[k]: the operation holding named lock k, 0 if free
    storageKeyCache,   \* the map storageKeyCache: cacheIndex -> key
    storageKeyCacheMu, \* the sync.RWMutex storageKeyCacheMu
    calls          \* calls[c]: caller c's getKeyForStorageAccount call

resourceVars == <<pc, kind, name, vnetsToLock, lockIdx, dId, err, attrs,
                  getResponse, armMutexKV>>
cacheVars == <<storageKeyCache, storageKeyCacheMu, calls>>
vars == <<resourceVars, cacheVars>>

Kinds == {"DDoSCreateUpdate", "DDoSDelete", "DDoSRead", "AACreateUpdate",
          "AADelete"}

\* azureRMLockByName(name, resourceType) locks the key resourceType.name
LockKey(n, resourceType) == <<resourceType, n>>

LockKeys == {LockKey(n, azureDDoSProtectionPlanResourceName) : n \in PlanNames}
            \cup {LockKey(n, virtualNetworkResourceName) : n \in VnetNames}
            \cup {LockKey(n, automationAccountResourceName) : n \in AccountNames}

HeldBy(o) == {k \in LockKeys : armMutexKV[k] = o}

\* The zero value of the answer of client.Get, which a handler that made no
\* Get holds.
NoGet == [err |-> FALSE, notFound |-> FALSE, ID |-> NilID]

\* A caller that is not inside getKeyForStorageAccount.
NoResponse == [notFound |-> FALSE, err |-> FALSE, Keys |-> <<"none">>]
NoReturn == [key |-> "", accountExists |-> FALSE, err |-> "none", listed |-> FALSE]
IdleCall == [pc |-> "idle", c |-> "", resourceGroupName |-> "",
             storageAccountName |-> "", key |-> "", ok |-> FALSE,
             accountKeys |-> NoResponse, ret |-> NoReturn]

Init ==
    /\ pc = [o \in Ops |-> "idle"]
    /\ kind = [o \in Ops |-> "none"]
    /\ name = [o \in Ops |-> ""]
    /\ vnetsToLock = [o \in Ops |-> <<>>]
    /\ lockIdx = [o \in Ops |-> 0]
    /\ dId = [o \in Ops |-> NoID]
    /\ err = [o \in Ops |-> "none"]
    /\ attrs = [o \in Ops |-> "entry"]
    /\ getResponse = [o \in Ops |-> NoGet]
    /\ armMutexKV = [k \in LockKeys |-> 0]
    /\ storageKeyCache = <<>>
    /\ storageKeyCacheMu = [readers |-> {}, writer |-> 0, writing |-> FALSE]
    /\ calls = [c \in Callers |-> IdleCall]


(* ------------------------- named locks --------------------------------- *)
\* azureRMLockByName blocks until the named mutex is free, then takes it.
azureRMLockByName(kv, o, n, resourceType) ==
    [kv EXCEPT ![LockKey(n, resourceType)] = o]

azureRMCanLock(kv, n, resourceType) == kv[LockKey(n, resourceType)] = 0

azureRMUnlockByName(kv, n, resourceType) ==
    [k \in DOMAIN kv |-> IF k = LockKey(n, resourceType) THEN 0 ELSE kv[k]]

azureRMUnlockMultipleByName(kv, names, resourceType) ==
    [k \in DOMAIN kv |->
        IF k[1] = resourceType /\ sliceContainsValue(names, k[2]) THEN 0 ELSE kv[k]]

(* ------------------------- remote responses ---------------------------- *)
\* What client.Get can answer for a resource whose ID would be `id`: the
\* resource, a resource without ID, a resource with an empty ID, a 404, or
\* another error.
GetResponses(id) ==
    {[err |-> FALSE, notFound |-> FALSE, ID |-> i] : i \in {id, NilID, NoID}}
    \cup {[err |-> TRUE, notFound |-> nf, ID |-> NilID] : nf \in BOOLEAN}

\* The Get of the import check is made only when requireResourcesToBeImported
\* is set and the resource is new (d.IsNewResource()); otherwise `existing`
\* does not exist. The flag is read by each call: it is an input of the call.
ImportCheckResponses(requireResourcesToBeImported, isNew, id) ==
    IF requireResourcesToBeImported /\ isNew
    THEN GetResponses(id)
    ELSE {NoGet}

\* What a mutating call that answers with a plain response can answer.
CallResponses ==
    {[err |-> FALSE, notFound |-> FALSE]}
    \cup {[err |-> TRUE, notFound |-> nf] : nf \in BOOLEAN}

(* ------------------------- returning ----------------------------------- *)
\* A return before any defer statement ran: nothing to release. The
\* handler's locals go; a is what the attributes of d are left as.
Returns(o, e, id, a) ==
    /\ pc' = [pc EXCEPT ![o] = "done"]
    /\ err' = [err EXCEPT ![o] = e]
    /\ dId' = [dId EXCEPT ![o] = id]
    /\ attrs' = [attrs EXCEPT ![o] = a]
    /\ name' = [name EXCEPT ![o] = ""]
    /\ vnetsToLock' = [vnetsToLock EXCEPT ![o] = <<>>]
    /\ lockIdx' = [lockIdx EXCEPT ![o] = 0]
    /\ getResponse' = [getResponse EXCEPT ![o] = NoGet]

\* A return that leaves the attributes of d alone.
Return(o, e, id) == Returns(o, e, id, attrs[o])

\* Mutant: the defer of azureRMUnlockMultipleByName is missing.
DDoSDeferred_PlanOnly(o) ==
    azureRMUnlockByName(armMutexKV, name[o], azureDDoSProtectionPlanResourceName)

\* The deferred calls of the DDoS handlers, run last-in first-out on return:
\* azureRMUnlockMultipleByName(vnetsToLock, ...), then
\* azureRMUnlockByName(name, ...).
DDoSDeferred(o) ==
    azureRMUnlockByName(
        azureRMUnlockMultipleByName(armMutexKV, vnetsToLock[o],
                                    virtualNetworkResourceName),
        name[o], azureDDoSProtectionPlanResourceName)

\* A return of a DDoS handler after both defer statements ran.
DDoSReturn(o, e, id) ==
    /\ Return(o, e, id)
    /\ armMutexKV' = DDoSDeferred(o)

(* ------------------- DDoS Protection Plan: Read ------------------------ *)
\* Mutant: a plan that is not found stays in state.
DDoSReadResult_KeepsId(id, plan) ==
    IF plan.err
    THEN IF plan.notFound
         THEN {[err |-> "nil", dId |-> id, attrs |-> "entry"]}
         ELSE {[err |-> "read", dId |-> id, attrs |-> "entry"]}
    ELSE {[err |-> "nil", dId |-> id, attrs |-> "read"],
          [err |-> "set", dId |-> id, attrs |-> "partial"]}

\* Lines 133-158 of resourceArmDDoSProtectionPlanRead: what the handler
\* makes of the answer `plan` of client.Get, on a ResourceData whose ID is
\* id and whose attributes are as on entry. Each outcome is the error
\* returned, the ID left in d and the attributes left in d: untouched
\* ("entry"), all set from the plan ("read"), or set up to the failing
\* d.Set("virtual_network_ids", ...) of line 150 ("partial").
DDoSReadResult(id, plan) ==
    IF plan.err
    THEN IF plan.notFound
         THEN {[err |-> "nil", dId |-> NoID, attrs |-> "entry"]}
         ELSE {[err |-> "read", dId |-> id, attrs |-> "entry"]}
    ELSE {[err |-> "nil", dId |-> id, attrs |-> "read"],
          [err |-> "set", dId |-> id, attrs |-> "partial"]}

\* resourceArmDDoSProtectionPlanRead on a ResourceData whose ID is id: the
\* set of its outcomes.
resourceArmDDoSProtectionPlanRead(id) ==
    LET parsed == parseAzureResourceID(id)
        n == PathOf(parsed, "ddosProtectionPlans")
    IN  IF parsed.err THEN {[err |-> "parse", dId |-> id, attrs |-> "entry"]}
        ELSE UNION {DDoSReadResult(id, plan) : plan \in GetResponses(PlanID(n))}

\* Line 121: Terraform calls the Read handler on a resource of its state.
DDoSReadBegin(o) ==
    /\ pc[o] = "idle"
    /\ \E id \in {PlanID(n) : n \in PlanNames} \cup {BadID} :
        /\ kind' = [kind EXCEPT ![o] = "DDoSRead"]
        /\ dId' = [dId EXCEPT ![o] = id]
        /\ pc' = [pc EXCEPT ![o] = "read"]
    /\ UNCHANGED <<name, vnetsToLock, lockIdx, err, attrs, getResponse, armMutexKV>>
    /\ UNCHANGED cacheVars

\* Lines 125-132: d.Id() is parsed; an error returns, otherwise client.Get
\* is called and answers.
DDoSReadGet(o) ==
    /\ pc[o] = "read"
    /\ LET parsed == parseAzureResourceID(dId[o])
           n == PathOf(parsed, "ddosProtectionPlans")
       IN  IF parsed.err
           THEN Return(o, "parse", dId[o])
           ELSE \E plan \in GetResponses(PlanID(n)) :
                /\ pc' = [pc EXCEPT ![o] = "read_get"]
                /\ name' = [name EXCEPT ![o] = n]
                /\ getResponse' = [getResponse EXCEPT ![o] = plan]
                /\ UNCHANGED <<vnetsToLock, lockIdx, dId, err, attrs>>
    /\ UNCHANGED <<kind, armMutexKV>>
    /\ UNCHANGED cacheVars

\* Lines 133-158: the answer is examined, the attributes are set, the
\* handler returns.
DDoSReadReturns(o) ==
    /\ pc[o] = "read_get"
    /\ \E r \in DDoSReadResult(dId[o], getResponse[o]) :
        Returns(o, r.err, r.dId, r.attrs)
    /\ UNCHANGED <<kind, armMutexKV>>
    /\ UNCHANGED cacheVars

(* ------------------- DDoS Protection Plan: CreateUpdate ---------------- *)
\* The values d.Get("virtual_network_ids") can have, and what
\* extractVnetNames makes of them.
VnetIDLists == SeqsUpTo({VnetID(v) : v \in VnetNames} \cup {BadID}, MaxVnetIDs)
Extracted == {extractVnetNames(vnetIDs) : vnetIDs \in VnetIDLists}

\* Lines 82-87 and 183-188: extractVnetNames, then on to the first lock.
DDoSExtract(o, n, id) ==
    \E extracted \in Extracted :
        IF extracted.err
        THEN Return(o, "extract", id)
        ELSE /\ pc' = [pc EXCEPT ![o] = "lock_plan"]
             /\ name' = [name EXCEPT ![o] = n]
             /\ vnetsToLock' = [vnetsToLock EXCEPT ![o] = extracted.names]
             /\ dId' = [dId EXCEPT ![o] = id]
             /\ getResponse' = [getResponse EXCEPT ![o] = NoGet]
             /\ UNCHANGED <<err, lockIdx, attrs>>

\* Lines 57-67: the handler is entered on a ResourceData whose ID is empty
\* for a new resource; client.Get is called for the import check when
\* requireResourcesToBeImported && d.IsNewResource(), and answers.
DDoSCreateUpdateBegin(o) ==
    /\ pc[o] = "idle"
    /\ \E n \in PlanNames, isNew \in BOOLEAN, requireResourcesToBeImported \in BOOLEAN :
       \E existing \in ImportCheckResponses(requireResourcesToBeImported, isNew,
                                             PlanID(n)) :
        /\ kind' = [kind EXCEPT ![o] = "DDoSCreateUpdate"]
        /\ pc' = [pc EXCEPT ![o] = "import"]
        /\ name' = [name EXCEPT ![o] = n]
        /\ dId' = [dId EXCEPT ![o] = IF isNew THEN NoID ELSE PlanID(n)]
        /\ getResponse' = [getResponse EXCEPT ![o] = existing]
    /\ UNCHANGED <<vnetsToLock, lockIdx, err, attrs, armMutexKV>>
    /\ UNCHANGED cacheVars

\* Mutant: every error of the import check's Get fails the handler.
DDoSImportCheck_NotFoundFails(o) ==
    /\ pc[o] = "import"
    /\ kind[o] = "DDoSCreateUpdate"
    /\ LET existing == getResponse[o]
       IN  IF existing.err
           THEN Return(o, "import_get", dId[o])
           ELSE IF existing.ID # NilID /\ existing.ID # NoID
           THEN Return(o, "import_exists", dId[o])
           ELSE DDoSExtract(o, name[o], dId[o])
    /\ UNCHANGED <<kind, armMutexKV>>
    /\ UNCHANGED cacheVars

\* Lines 68-85: the answer of the import check is examined, then
\* extractVnetNames, up to the first lock.
DDoSImportCheck(o) ==
    /\ pc[o] = "import"
    /\ kind[o] = "DDoSCreateUpdate"
    /\ LET existing == getResponse[o]
       IN  IF existing.err /\ ~existing.notFound
           THEN Return(o, "import_get", dId[o])
           ELSE IF existing.ID # NilID /\ existing.ID # NoID
           THEN Return(o, "import_exists", dId[o])
           ELSE DDoSExtract(o, name[o], dId[o])
    /\ UNCHANGED <<kind, armMutexKV>>
    /\ UNCHANGED cacheVars

(* ------------------- DDoS Protection Plan: Delete ---------------------- *)
\* Lines 161-186: parsing d.Id(), the Get, and extractVnetNames.
DDoSDeleteBegin(o) ==
    /\ pc[o] = "idle"
    /\ \E id \in {PlanID(n) : n \in PlanNames} \cup {BadID} :
        LET parsed == parseAzureResourceID(id)
            n == PathOf(parsed, "ddosProtectionPlans")
        IN  /\ kind' = [kind EXCEPT ![o] = "DDoSDelete"]
            /\ IF parsed.err THEN Return(o, "parse", id)
               ELSE \E read \in GetResponses(PlanID(n)) :
                    IF read.err /\ read.notFound THEN Return(o, "nil", id)
                    ELSE IF read.err THEN Return(o, "get", id)
                    ELSE DDoSExtract(o, n, id)
    /\ UNCHANGED armMutexKV
    /\ UNCHANGED cacheVars

(* ------------------- DDoS Protection Plan: the locks ------------------- *)
\* Mutant: the remote call is sent right after the first lock.
AfterLock_Early(o, lastLock) == "inflight"

\* Once the last lock is taken the handler sends client.CreateOrUpdate
\* (line 98) or client.Delete (line 194): the remote call is in flight.
AfterLock(o, lastLock) == IF lastLock THEN "inflight" ELSE "lock_vnets"

\* azureRMLockByName(name, azureDDoSProtectionPlanResourceName) and its
\* defer (lines 87-88 and 188-189).
DDoSLockPlan(o) ==
    /\ pc[o] = "lock_plan"
    /\ azureRMCanLock(armMutexKV, name[o], azureDDoSProtectionPlanResourceName)
    /\ armMutexKV' = azureRMLockByName(armMutexKV, o, name[o],
                                       azureDDoSProtectionPlanResourceName)
    /\ pc' = [pc EXCEPT ![o] = AfterLock(o, vnetsToLock[o] = <<>>)]
    /\ lockIdx' = [lockIdx EXCEPT ![o] = 1]
    /\ UNCHANGED <<kind, name, vnetsToLock, dId, err, attrs, getResponse>>
    /\ UNCHANGED cacheVars

\* Mutant: azureRMLockMultipleByName is not called.
DDoSLockVnets_Skipped(o) ==
    /\ pc[o] = "lock_vnets"
    /\ pc' = [pc EXCEPT ![o] = "inflight"]
    /\ UNCHANGED <<kind, name, vnetsToLock, lockIdx, dId, err, attrs, getResponse,
                   armMutexKV>>
    /\ UNCHANGED cacheVars

\* Mutant: the names are locked from the end of the list.
DDoSLockVnets_Reversed(o) ==
    LET i == Len(vnetsToLock[o]) + 1 - lockIdx[o]
    IN  /\ pc[o] = "lock_vnets"
        /\ lockIdx[o] <= Len(vnetsToLock[o])
        /\ azureRMCanLock(armMutexKV, vnetsToLock[o][i], virtualNetworkResourceName)
        /\ armMutexKV' = azureRMLockByName(armMutexKV, o, vnetsToLock[o][i],
                                           virtualNetworkResourceName)
        /\ lockIdx' = [lockIdx EXCEPT ![o] = @ + 1]
        /\ pc' = [pc EXCEPT ![o] = AfterLock(o, lockIdx[o] = Len(vnetsToLock[o]))]
        /\ UNCHANGED <<kind, name, vnetsToLock, dId, err, attrs, getResponse>>
        /\ UNCHANGED cacheVars

\* One iteration of azureRMLockMultipleByName(vnetsToLock,
\* virtualNetworkResourceName) (lines 90-91 and 191-192): the next name of
\* the list is locked, blocking while another operation holds it.
DDoSLockVnets(o) ==
    /\ pc[o] = "lock_vnets"
    /\ lockIdx[o] <= Len(vnetsToLock[o])
    /\ azureRMCanLock(armMutexKV, vnetsToLock[o][lockIdx[o]], virtualNetworkResourceName)
    /\ armMutexKV' = azureRMLockByName(armMutexKV, o, vnetsToLock[o][lockIdx[o]],
                                       virtualNetworkResourceName)
    /\ lockIdx' = [lockIdx EXCEPT ![o] = @ + 1]
    /\ pc' = [pc EXCEPT ![o] = AfterLock(o, lockIdx[o] = Len(vnetsToLock[o]))]
    /\ UNCHANGED <<kind, name, vnetsToLock, dId, err, attrs, getResponse>>
    /\ UNCHANGED cacheVars

(* ------------------- DDoS Protection Plan: remote calls ---------------- *)
\* CreateOrUpdate or Delete answers: an error returns (lines 99-101 and
\* 195-197), a future is polled next.
DDoSCallReturns(o) ==
    /\ pc[o] = "inflight"
    /\ kind[o] \in {"DDoSCreateUpdate", "DDoSDelete"}
    /\ \E callErr \in BOOLEAN :
        IF callErr
        THEN DDoSReturn(o, "call", dId[o])
        ELSE /\ pc' = [pc EXCEPT ![o] = "poll"]
             /\ UNCHANGED <<name, vnetsToLock, lockIdx, dId, err, attrs, getResponse,
                            armMutexKV>>
    /\ UNCHANGED kind
    /\ UNCHANGED cacheVars

\* Mutant: d.SetId runs before the answer of the Get is examined.
DDoSGetAndRead_SetIdFirst(o) ==
    \E plan \in GetResponses(PlanID(name[o])) :
        IF plan.err THEN DDoSReturn(o, "retrieve", PlanID(name[o]))
        ELSE IF plan.ID = NilID THEN DDoSReturn(o, "nil_id", PlanID(name[o]))
        ELSE \E r \in resourceArmDDoSProtectionPlanRead(plan.ID) :
                /\ Returns(o, r.err, r.dId, r.attrs)
                /\ armMutexKV' = DDoSDeferred(o)

\* Lines 107-118 of CreateUpdate: the Get, d.SetId and the trailing Read,
\* then the return.
DDoSGetAndRead(o) ==
    \E plan \in GetResponses(PlanID(name[o])) :
        IF plan.err THEN DDoSReturn(o, "retrieve", dId[o])
        ELSE IF plan.ID = NilID THEN DDoSReturn(o, "nil_id", dId[o])
        ELSE \E r \in resourceArmDDoSProtectionPlanRead(plan.ID) :
                /\ Returns(o, r.err, r.dId, r.attrs)
                /\ armMutexKV' = DDoSDeferred(o)

\* future.WaitForCompletionRef ends (lines 103-105 and 199-203); Delete
\* returns, CreateUpdate goes on to read the plan back.
DDoSPollEnds(o) ==
    /\ pc[o] = "poll"
    /\ \E pollErr \in BOOLEAN :
        IF pollErr
        THEN DDoSReturn(o, "poll", dId[o])
        ELSE IF kind[o] = "DDoSDelete"
        THEN DDoSReturn(o, "nil", dId[o])
        ELSE DDoSGetAndRead(o)
    /\ UNCHANGED kind
    /\ UNCHANGED cacheVars

(* ------------------- Automation Account -------------------------------- *)
\* resourceArmAutomationAccountRead on a ResourceData whose ID is id. The
\* second Get (registrationClient) tests the first response for 'not
\* found', which it was not, so its error is always returned. The
\* attributes are set after both Gets; d.Set("sku", ...) may fail.
resourceArmAutomationAccountRead(id) ==
    LET parsed == parseAzureResourceID(id)
        n == PathOf(parsed, "automationAccounts")
    IN  IF parsed.err THEN {[err |-> "parse", dId |-> id, attrs |-> "entry"]}
        ELSE UNION {IF resp.err
                    THEN IF resp.notFound
                         THEN {[err |-> "nil", dId |-> NoID, attrs |-> "entry"]}
                         ELSE {[err |-> "read", dId |-> id, attrs |-> "entry"]}
                    ELSE {[err |-> "nil", dId |-> id, attrs |-> "read"],
                          [err |-> "set", dId |-> id, attrs |-> "partial"]}
                    : resp \in GetResponses(AccountID(n))}
             \cup {[err |-> "read_keys", dId |-> id, attrs |-> "entry"]}

\* Mutant: the handler locks its account by name before the call.
AALocks_ByName(o, n) ==
    azureRMLockByName(armMutexKV, o, n, automationAccountResourceName)

\* The named locks after the Automation Account handlers' preparation
\* (lines 103-113 and 194-199): the handlers call no azureRMLock function.
AALocks(o, n) == armMutexKV

\* Lines 81-91 of CreateUpdate: the handler is entered; client.Get is called
\* for the import check when requireResourcesToBeImported &&
\* d.IsNewResource(), and answers.
AACreateUpdateBegin(o) ==
    /\ pc[o] = "idle"
    /\ \E n \in AccountNames, isNew \in BOOLEAN, requireResourcesToBeImported \in BOOLEAN :
       \E existing \in ImportCheckResponses(requireResourcesToBeImported, isNew,
                                             AccountID(n)) :
        /\ kind' = [kind EXCEPT ![o] = "AACreateUpdate"]
        /\ pc' = [pc EXCEPT ![o] = "import"]
        /\ name' = [name EXCEPT ![o] = n]
        /\ dId' = [dId EXCEPT ![o] = IF isNew THEN NoID ELSE AccountID(n)]
        /\ getResponse' = [getResponse EXCEPT ![o] = existing]
    /\ UNCHANGED <<vnetsToLock, lockIdx, err, attrs, armMutexKV>>
    /\ UNCHANGED cacheVars

\* Lines 92-115 of CreateUpdate: the answer of the import check is examined,
\* then client.CreateOrUpdate is sent; no lock is taken.
AAImportCheck(o) ==
    /\ pc[o] = "import"
    /\ kind[o] = "AACreateUpdate"
    /\ LET existing == getResponse[o]
       IN  IF existing.err /\ ~existing.notFound
           THEN Return(o, "import_get", dId[o]) /\ UNCHANGED armMutexKV
           ELSE IF existing.ID # NilID /\ existing.ID # NoID
           THEN Return(o, "import_exists", dId[o]) /\ UNCHANGED armMutexKV
           ELSE /\ pc' = [pc EXCEPT ![o] = "inflight"]
                /\ getResponse' = [getResponse EXCEPT ![o] = NoGet]
                /\ armMutexKV' = AALocks(o, name[o])
                /\ UNCHANGED <<name, dId, err, lockIdx, vnetsToLock, attrs>>
    /\ UNCHANGED kind
    /\ UNCHANGED cacheVars

\* Lines 190-201 of Delete: parsing d.Id(), then client.Delete is sent; no
\* lock is taken.
AADeleteBegin(o) ==
    /\ pc[o] = "idle"
    /\ \E id \in {AccountID(n) : n \in AccountNames} \cup {BadID} :
        LET parsed == parseAzureResourceID(id)
            n == PathOf(parsed, "automationAccounts")
        IN  /\ kind' = [kind EXCEPT ![o] = "AADelete"]
            /\ IF parsed.err THEN Return(o, "parse", id) /\ UNCHANGED armMutexKV
               ELSE /\ pc' = [pc EXCEPT ![o] = "inflight"]
                    /\ name' = [name EXCEPT ![o] = n]
                    /\ dId' = [dId EXCEPT ![o] = id]
                    /\ armMutexKV' = AALocks(o, n)
                    /\ UNCHANGED <<err, lockIdx, vnetsToLock, attrs, getResponse>>
    /\ UNCHANGED cacheVars

\* Lines 119-130 of CreateUpdate: the Get, d.SetId and the trailing Read.
AAGetAndRead(o) ==
    \E read \in GetResponses(AccountID(name[o])) :
        IF read.err THEN Return(o, "retrieve", dId[o])
        ELSE IF read.ID = NilID THEN Return(o, "nil_id", dId[o])
        ELSE \E r \in resourceArmAutomationAccountRead(read.ID) :
                Returns(o, r.err, r.dId, r.attrs)

\* The call answers (lines 115-117 and 201-211).
AACallReturns(o) ==
    /\ pc[o] = "inflight"
    /\ kind[o] \in {"AACreateUpdate", "AADelete"}
    /\ \E resp1 \in CallResponses :
        IF kind[o] = "AADelete"
        THEN IF resp1.err /\ ~resp1.notFound
             THEN Return(o, "call", dId[o])
             ELSE Return(o, "nil", dId[o])
        ELSE IF resp1.err
             THEN Return(o, "call", dId[o])
             ELSE AAGetAndRead(o)
    /\ UNCHANGED <<kind, armMutexKV>>
    /\ UNCHANGED cacheVars

(* ------------------- storage account key cache ------------------------- *)
\* cacheIndex := resourceGroupName + "/" + storageAccountName
cacheIndex(resourceGroupName, storageAccountName) ==
    resourceGroupName \o "/" \o storageAccountName

\* key, ok := storageKeyCache[cacheIndex]
CacheLookup(cache, index) ==
    IF index \in DOMAIN cache
    THEN [key |-> cache[index], ok |-> TRUE]
    ELSE [key |-> "", ok |-> FALSE]

\* Mutant: storing a key drops the other entries.
CacheStore_Reset(cache, index, key) == [i \in {index} |-> key]

\* storageKeyCache[cacheIndex] = key
CacheStore(cache, index, key) ==
    [i \in DOMAIN cache \cup {index} |-> IF i = index THEN key ELSE cache[i]]

\* What ListKeys can answer: whether the response is a 404, whether an error
\* came with it, and the key list: nil, or a list of values of which each
\* may be a nil pointer.
NilValue == "<nil>"
NilKeys == <<"<nil list>">>
KeyLists == {NilKeys, <<>>, <<NilValue>>, <<NilValue, "k1">>}
            \cup {<<k>> : k \in StorageKeys}
            \cup {<<"k2", "k1">>}
ListKeysResponses ==
    {[notFound |-> nf, err |-> e, Keys |-> ks] :
        nf \in BOOLEAN, e \in BOOLEAN, ks \in KeyLists}

\* Mutant: RLock does not wait for a writer.
RWMutexCanRLock_Always(mu) == TRUE

\* sync.RWMutex: RLock blocks while a writer holds the mutex or waits for it.
RWMutexCanRLock(mu) == mu.writer = 0
RWMutexRLock(mu, c) == [mu EXCEPT !.readers = @ \cup {c}]
RWMutexRUnlock(mu, c) == [mu EXCEPT !.readers = @ \ {c}]
\* Lock: the caller first becomes the one pending writer, which stops new
\* readers, then waits until the readers have left.
RWMutexCanPend(mu) == mu.writer = 0
RWMutexPend(mu, c) == [mu EXCEPT !.writer = c]
RWMutexCanLock(mu, c) == mu.writer = c /\ ~mu.writing /\ mu.readers = {}
RWMutexLock(mu, c) == [mu EXCEPT !.writing = TRUE]
RWMutexUnlock(mu, c) == [mu EXCEPT !.writer = 0, !.writing = FALSE]

\* What a call hands back: the three results, and (for the record) what
\* it was called with, whether it asked the storage service and what it was
\* answered.
Returned(call, key, accountExists, e, listed) ==
    [IdleCall EXCEPT !.pc = "done", !.accountKeys = call.accountKeys,
                     !.c = call.c,
                     !.resourceGroupName = call.resourceGroupName,
                     !.storageAccountName = call.storageAccountName,
                     !.ret = [key |-> key, accountExists |-> accountExists,
                              err |-> e, listed |-> listed]]

\* Mutant: the index names the ArmClient too.
IndexOf_PerClient(c) ==
    calls[c].c \o ":" \o cacheIndex(calls[c].resourceGroupName,
                                    calls[c].storageAccountName)

\* Line 1252: the cacheIndex of the call of c.
IndexOf(c) == cacheIndex(calls[c].resourceGroupName, calls[c].storageAccountName)

\* The receiver of the method: every caller works for one configured
\* provider and calls the method on that provider's ArmClient.
ArmClientOf(c) == IF c % 2 = 1 THEN "sub1" ELSE "sub2"

\* Line 1251: a caller enters getKeyForStorageAccount on ArmClient c.
GetKeyCall(c) ==
    /\ calls[c].pc = "idle"
    /\ \E rg \in ResourceGroupNames, sa \in StorageAccountNames :
        calls' = [calls EXCEPT ![c] =
                    [IdleCall EXCEPT !.pc = "rlock", !.c = ArmClientOf(c),
                                     !.resourceGroupName = rg,
                                     !.storageAccountName = sa]]
    /\ UNCHANGED <<storageKeyCache, storageKeyCacheMu>>
    /\ UNCHANGED resourceVars

\* Mutant: the first lookup is made without RLock.
GetKeyRLock_Missing(c) ==
    /\ calls[c].pc = "rlock"
    /\ calls' = [calls EXCEPT ![c].pc = "read"]
    /\ UNCHANGED <<storageKeyCache, storageKeyCacheMu>>
    /\ UNCHANGED resourceVars

\* Line 1253: storageKeyCacheMu.RLock()
GetKeyRLock(c) ==
    /\ calls[c].pc = "rlock"
    /\ RWMutexCanRLock(storageKeyCacheMu)
    /\ storageKeyCacheMu' = RWMutexRLock(storageKeyCacheMu, c)
    /\ calls' = [calls EXCEPT ![c].pc = "read"]
    /\ UNCHANGED storageKeyCache
    /\ UNCHANGED resourceVars

\* Line 1254: key, ok := storageKeyCache[cacheIndex]
GetKeyRead(c) ==
    /\ calls[c].pc = "read"
    /\ LET found == CacheLookup(storageKeyCache,
                                IndexOf(c))
       IN  calls' = [calls EXCEPT ![c].pc = "runlock",
                                  ![c].key = found.key, ![c].ok = found.ok]
    /\ UNCHANGED <<storageKeyCache, storageKeyCacheMu>>
    /\ UNCHANGED resourceVars

\* Mutant: on a miss the read lock is kept while Lock is requested.
GetKeyRUnlock_Kept(c) ==
    /\ calls[c].pc = "runlock"
    /\ storageKeyCacheMu' = IF calls[c].ok
                            THEN RWMutexRUnlock(storageKeyCacheMu, c)
                            ELSE storageKeyCacheMu
    /\ calls' = [calls EXCEPT ![c] =
                    IF calls[c].ok
                    THEN Returned(calls[c], calls[c].key, TRUE, "nil", FALSE)
                    ELSE [@ EXCEPT !.pc = "lock"]]
    /\ UNCHANGED storageKeyCache
    /\ UNCHANGED resourceVars

\* Lines 1255-1259: storageKeyCacheMu.RUnlock(), and the return on a hit.
GetKeyRUnlock(c) ==
    /\ calls[c].pc = "runlock"
    /\ storageKeyCacheMu' = RWMutexRUnlock(storageKeyCacheMu, c)
    /\ calls' = [calls EXCEPT ![c] =
                    IF calls[c].ok
                    THEN Returned(calls[c], calls[c].key, TRUE, "nil", FALSE)
                    ELSE [@ EXCEPT !.pc = "lock"]]
    /\ UNCHANGED storageKeyCache
    /\ UNCHANGED resourceVars

\* Line 1261, storageKeyCacheMu.Lock(): the caller becomes the pending writer.
GetKeyLockPend(c) ==
    /\ calls[c].pc = "lock"
    /\ RWMutexCanPend(storageKeyCacheMu)
    /\ storageKeyCacheMu' = RWMutexPend(storageKeyCacheMu, c)
    /\ calls' = [calls EXCEPT ![c].pc = "lockwait"]
    /\ UNCHANGED storageKeyCache
    /\ UNCHANGED resourceVars

\* Line 1261, storageKeyCacheMu.Lock(): the readers have left, Lock returns.
GetKeyLock(c) ==
    /\ calls[c].pc = "lockwait"
    /\ RWMutexCanLock(storageKeyCacheMu, c)
    /\ storageKeyCacheMu' = RWMutexLock(storageKeyCacheMu, c)
    /\ calls' = [calls EXCEPT ![c].pc = "recheck"]
    /\ UNCHANGED storageKeyCache
    /\ UNCHANGED resourceVars

\* Mutant: the map is not looked up again under the write lock.
GetKeyRecheck_Skipped(c) ==
    /\ calls[c].pc = "recheck"
    /\ calls' = [calls EXCEPT ![c].pc = "listkeys"]
    /\ UNCHANGED <<storageKeyCache, storageKeyCacheMu>>
    /\ UNCHANGED resourceVars

\* Lines 1263-1265 and 1293: the second lookup; on a hit the return (with
\* the deferred Unlock), on a miss ListKeys is sent.
GetKeyRecheck(c) ==
    /\ calls[c].pc = "recheck"
    /\ LET found == CacheLookup(storageKeyCache,
                                IndexOf(c))
       IN  IF found.ok
           THEN /\ calls' = [calls EXCEPT ![c] =
                                Returned(calls[c], found.key, TRUE, "nil", FALSE)]
                /\ storageKeyCacheMu' = RWMutexUnlock(storageKeyCacheMu, c)
           ELSE /\ calls' = [calls EXCEPT ![c].pc = "listkeys",
                                          ![c].key = found.key, ![c].ok = FALSE]
                /\ UNCHANGED storageKeyCacheMu
    /\ UNCHANGED storageKeyCache
    /\ UNCHANGED resourceVars

\* Line 1265: c.storageServiceClient.ListKeys answers.
GetKeyListKeysAnswers(c) ==
    /\ calls[c].pc = "listkeys"
    /\ \E accountKeys \in ListKeysResponses :
        calls' = [calls EXCEPT ![c].pc = "answered", ![c].accountKeys = accountKeys]
    /\ UNCHANGED <<storageKeyCache, storageKeyCacheMu>>
    /\ UNCHANGED resourceVars

\* Mutant: the error check comes before the 'not found' check.
ListKeysResult_ErrFirst(accountKeys) ==
    IF accountKeys.err
    THEN [store |-> FALSE, key |-> "", accountExists |-> TRUE, err |-> "retrieve"]
    ELSE IF accountKeys.notFound
    THEN [store |-> FALSE, key |-> "", accountExists |-> FALSE, err |-> "nil"]
    ELSE IF accountKeys.Keys = NilKeys
    THEN [store |-> FALSE, key |-> "", accountExists |-> FALSE, err |-> "nil_keys"]
    ELSE IF Len(accountKeys.Keys) <= 0
    THEN [store |-> FALSE, key |-> "", accountExists |-> FALSE, err |-> "no_keys"]
    ELSE IF accountKeys.Keys[1] = NilValue
    THEN [store |-> FALSE, key |-> "", accountExists |-> FALSE, err |-> "nil_first"]
    ELSE [store |-> TRUE, key |-> accountKeys.Keys[1], accountExists |-> TRUE,
          err |-> "nil"]

\* Mutant: the last key of the list is taken, not the first.
ListKeysResult_LastKey(accountKeys) ==
    IF accountKeys.notFound
    THEN [store |-> FALSE, key |-> "", accountExists |-> FALSE, err |-> "nil"]
    ELSE IF accountKeys.err
    THEN [store |-> FALSE, key |-> "", accountExists |-> TRUE, err |-> "retrieve"]
    ELSE IF accountKeys.Keys = NilKeys
    THEN [store |-> FALSE, key |-> "", accountExists |-> FALSE, err |-> "nil_keys"]
    ELSE IF Len(accountKeys.Keys) <= 0
    THEN [store |-> FALSE, key |-> "", accountExists |-> FALSE, err |-> "no_keys"]
    ELSE IF accountKeys.Keys[1] = NilValue
    THEN [store |-> FALSE, key |-> "", accountExists |-> FALSE, err |-> "nil_first"]
    ELSE [store |-> TRUE, key |-> accountKeys.Keys[Len(accountKeys.Keys)],
          accountExists |-> TRUE, err |-> "nil"]

\* Mutant: a nil key list is taken for a transient failure (the account is
\* assumed to exist).
ListKeysResult_NilKeysExists(accountKeys) ==
    IF accountKeys.notFound
    THEN [store |-> FALSE, key |-> "", accountExists |-> FALSE, err |-> "nil"]
    ELSE IF accountKeys.err
    THEN [store |-> FALSE, key |-> "", accountExists |-> TRUE, err |-> "retrieve"]
    ELSE IF accountKeys.Keys = NilKeys
    THEN [store |-> FALSE, key |-> "", accountExists |-> TRUE, err |-> "nil_keys"]
    ELSE IF Len(accountKeys.Keys) <= 0
    THEN [store |-> FALSE, key |-> "", accountExists |-> FALSE, err |-> "no_keys"]
    ELSE IF accountKeys.Keys[1] = NilValue
    THEN [store |-> FALSE, key |-> "", accountExists |-> FALSE, err |-> "nil_first"]
    ELSE [store |-> TRUE, key |-> accountKeys.Keys[1], accountExists |-> TRUE,
          err |-> "nil"]

\* Lines 1266-1293: what the function returns for a ListKeys response, and
\* whether it stores the key.
ListKeysResult(accountKeys) ==
    IF accountKeys.notFound
    THEN [store |-> FALSE, key |-> "", accountExists |-> FALSE, err |-> "nil"]
    ELSE IF accountKeys.err
    THEN [store |-> FALSE, key |-> "", accountExists |-> TRUE, err |-> "retrieve"]
    ELSE IF accountKeys.Keys = NilKeys
    THEN [store |-> FALSE, key |-> "", accountExists |-> FALSE, err |-> "nil_keys"]
    ELSE IF Len(accountKeys.Keys) <= 0
    THEN [store |-> FALSE, key |-> "", accountExists |-> FALSE, err |-> "no_keys"]
    ELSE IF accountKeys.Keys[1] = NilValue
    THEN [store |-> FALSE, key |-> "", accountExists |-> FALSE, err |-> "nil_first"]
    ELSE [store |-> TRUE, key |-> accountKeys.Keys[1], accountExists |-> TRUE,
          err |-> "nil"]

\* Lines 1266-1293: the response is examined; the key is stored or the
\* failure returned, and the deferred Unlock runs.
GetKeyListKeysReturns(c) ==
    /\ calls[c].pc = "answered"
    /\ LET r == ListKeysResult(calls[c].accountKeys)
       IN  /\ calls' = [calls EXCEPT ![c] =
                          Returned(calls[c], r.key, r.accountExists, r.err, TRUE)]
           /\ storageKeyCache' =
                 IF r.store
                 THEN CacheStore(storageKeyCache,
                                 IndexOf(c), r.key)
                 ELSE storageKeyCache
    /\ storageKeyCacheMu' = RWMutexUnlock(storageKeyCacheMu, c)
    /\ UNCHANGED resourceVars

\* The caller has its result and may call again.
GetKeyDone(c) ==
    /\ calls[c].pc = "done"
    /\ calls' = [calls EXCEPT ![c] = IdleCall]
    /\ UNCHANGED <<storageKeyCache, storageKeyCacheMu>>
    /\ UNCHANGED resourceVars

(* ------------------------- specification ------------------------------- *)
DDoSStep(o) ==
    \/ DDoSCreateUpdateBegin(o)
    \/ DDoSImportCheck(o)
    \/ DDoSDeleteBegin(o)
    \/ DDoSLockPlan(o)
    \/ DDoSLockVnets(o)
    \/ DDoSCallReturns(o)
    \/ DDoSPollEnds(o)

AAStep(o) ==
    \/ AACreateUpdateBegin(o)
    \/ AAImportCheck(o)
    \/ AADeleteBegin(o)
    \/ AACallReturns(o)

\* The Read handler of the plan, called by Terraform's refresh.
DDoSReadStep(o) ==
    \/ DDoSReadBegin(o)
    \/ DDoSReadGet(o)
    \/ DDoSReadReturns(o)

\* The two CreateUpdate handlers.
CreateUpdateStep(o) ==
    \/ DDoSCreateUpdateBegin(o)
    \/ DDoSImportCheck(o)
    \/ DDoSLockPlan(o)
    \/ DDoSLockVnets(o)
    \/ DDoSCallReturns(o)
    \/ DDoSPollEnds(o)
    \/ AACreateUpdateBegin(o)
    \/ AAImportCheck(o)
    \/ AACallReturns(o)

NextDDoS == \E o \in Ops : DDoSStep(o)
NextAA == \E o \in Ops : AAStep(o)
NextRead == \E o \in Ops : DDoSReadStep(o)
NextCreateUpdate == \E o \in Ops : CreateUpdateStep(o)

GetKeyStep(c) ==
    \/ GetKeyCall(c)
    \/ GetKeyRLock(c)
    \/ GetKeyRead(c)
    \/ GetKeyRUnlock(c)
    \/ GetKeyLockPend(c)
    \/ GetKeyLock(c)
    \/ GetKeyRecheck(c)
    \/ GetKeyListKeysAnswers(c)
    \/ GetKeyListKeysReturns(c)
    \/ GetKeyDone(c)

NextCache == \E c \in Callers : GetKeyStep(c)

Next == NextDDoS \/ NextAA \/ NextRead \/ NextCache

\* The whole provider.
Spec == Init /\ [][Next]_vars

\* The DDoS Protection Plan handlers alone, the Automation Account handlers
\* alone and the storage key cache alone: the three share no state.
SpecCache == Init /\ [][NextCache]_vars
SpecDDoS == Init /\ [][NextDDoS]_vars
SpecAA == Init /\ [][NextAA]_vars

\* The Read handler of the plan alone, and the CreateUpdate handlers of the
\* two resources together.
SpecRead == Init /\ [][NextRead]_vars
SpecCreateUpdate == Init /\ [][NextCreateUpdate]_vars

\* Terraform runs every handler in its own goroutine, and the Go scheduler
\* lets every runnable goroutine run.
FairSpecDDoS == SpecDDoS /\ \A o \in Ops : WF_vars(DDoSStep(o))

\* Every caller is a goroutine the Go scheduler keeps running, and every
\* ListKeys call is answered. A goroutine blocked in RLock is admitted when
\* the writer unlocks, and sync.Mutex (which serialises the writers) hands
\* the lock to a waiter that has been starved: a caller that can take the
\* lock again and again does take it.
FairSpecCache ==
    /\ SpecCache
    /\ \A c \in Callers :
          /\ WF_vars(GetKeyStep(c))
          /\ SF_vars(GetKeyRLock(c))
          /\ SF_vars(GetKeyLockPend(c))


(* ======================= DDoS Protection Plan locks ==================== *)
IsDDoS(o) == kind[o] \in {"DDoSCreateUpdate", "DDoSDelete"}

\* o is between sending its remote CreateOrUpdate/Delete call and the end of
\* the polling of its future.
InFlight(o) == pc[o] \in {"inflight", "poll"}

Waiting(o) == pc[o] \in {"lock_plan", "lock_vnets"}

PlanKey(o) == LockKey(name[o], azureDDoSProtectionPlanResourceName)
VnetKeys(o) == {LockKey(vnetsToLock[o][i], virtualNetworkResourceName) :
                    i \in 1..Len(vnetsToLock[o])}
AllKeys(o) == {PlanKey(o)} \cup VnetKeys(o)

CommonVnet(o, p) == \E i \in 1..Len(vnetsToLock[o]) :
                        sliceContainsValue(vnetsToLock[p], vnetsToLock[o][i])

\* C1: two DDoS Protection Plan mutations with the same plan name or with a
\* common virtual network name are never both between sending their remote
\* call and the end of its polling.
C1_MutualExclusion ==
    \A o, p \in Ops :
        (o # p /\ IsDDoS(o) /\ IsDDoS(p) /\ InFlight(o) /\ InFlight(p))
            => (name[o] # name[p] /\ ~CommonVnet(o, p))

\* C1 witness: one mutation is in flight while a mutation of another plan
\* that shares a virtual network with it waits for that network's lock.
C1_Witness ==
    \E o, p \in Ops :
        /\ o # p /\ IsDDoS(o) /\ IsDDoS(p)
        /\ pc[o] = "poll" /\ pc[p] = "lock_vnets"
        /\ name[o] # name[p] /\ CommonVnet(o, p)

\* C2: a DDoS Protection Plan mutation that has returned, by success or by
\* any error path, holds no named lock (and none before it started).
C2_ReleasedOnReturn ==
    \A o \in Ops : pc[o] \in {"idle", "done"} => HeldBy(o) = {}

\* C2 witness: one CreateUpdate returned the error of its trailing Read and
\* another mutation returned a polling error, both after taking their locks.
C2_Witness ==
    \E o, p \in Ops :
        /\ o # p /\ pc[o] = "done" /\ pc[p] = "done"
        /\ kind[o] = "DDoSCreateUpdate" /\ err[o] = "read"
        /\ kind[p] = "DDoSDelete" /\ err[p] = "poll"

\* o waits for a named lock another operation holds.
Blocked(o) ==
    \/ /\ pc[o] = "lock_plan"
       /\ ~azureRMCanLock(armMutexKV, name[o], azureDDoSProtectionPlanResourceName)
    \/ /\ pc[o] = "lock_vnets"
       /\ ~azureRMCanLock(armMutexKV, vnetsToLock[o][lockIdx[o]],
                          virtualNetworkResourceName)

C3_EveryOperationReturns == <>(\A o \in Ops : pc[o] = "done")

C5_LocksHeldDuringCall ==
    /\ [](\A o \in Ops : (IsDDoS(o) /\ InFlight(o)) => HeldBy(o) = AllKeys(o))
    /\ [][\A o \in Ops : \A k \in LockKeys :
            (armMutexKV[k] = o /\ armMutexKV'[k] # o) => pc'[o] = "done"]_vars

\* C5 witness: a mutation polls its future holding the plan lock and two
\* virtual network locks.
C5_Witness ==
    \E o \in Ops :
        /\ IsDDoS(o) /\ pc[o] = "poll"
        /\ Len(vnetsToLock[o]) = 2
        /\ HeldBy(o) = AllKeys(o)


(* ======================= Automation Account ============================ *)
IsAA(o) == kind[o] \in {"AACreateUpdate", "AADelete"}

\* C6, as stated: an Automation Account mutation has its remote call in
\* flight only while it holds the named lock of its account, so two
\* mutations of the same account are never in flight together.
C6_AccountCallsLocked ==
    \A o \in Ops :
        (IsAA(o) /\ pc[o] = "inflight") =>
            /\ armMutexKV[LockKey(name[o], automationAccountResourceName)] = o
            /\ \A p \in Ops \ {o} :
                 (IsAA(p) /\ pc[p] = "inflight") => name[p] # name[o]

\* C6, amended: the Automation Account mutations take no named lock at all:
\* whenever one of them is running, and in particular while its remote call
\* is in flight, it holds no lock.
C6_AccountCallsUnlocked ==
    \A o \in Ops : IsAA(o) => HeldBy(o) = {}

\* C6 witness: a CreateUpdate and a Delete of the same account have their
\* remote calls in flight at the same time.
C6_Witness ==
    \E o, p \in Ops :
        /\ kind[o] = "AACreateUpdate" /\ kind[p] = "AADelete"
        /\ pc[o] = "inflight" /\ pc[p] = "inflight"
        /\ name[o] = name[p]
        /\ HeldBy(o) = {} /\ HeldBy(p) = {}

(* ======================= storage key cache ============================= *)
\* C7: an entry of storageKeyCache is never removed and never changed.
C7_NoEviction ==
    [][\A i \in DOMAIN storageKeyCache :
            i \in DOMAIN storageKeyCache' /\ storageKeyCache'[i] = storageKeyCache[i]
      ]_vars

\* C7 witness: the cache holds the keys of two accounts, and a call that
\* asked the storage service after the first was stored has returned.
C7_Witness ==
    /\ Cardinality(DOMAIN storageKeyCache) = 2
    /\ \E c \in Callers : calls[c].pc = "done" /\ calls[c].ret.listed

\* The positions at which a caller reads and writes the map.
AtFirstRead(c) == calls[c].pc \in {"read", "runlock"}
InWriteSection(c) == calls[c].pc \in {"recheck", "listkeys", "answered"}
HoldsRLock(c) == c \in storageKeyCacheMu.readers
HoldsLock(c) == storageKeyCacheMu.writer = c /\ storageKeyCacheMu.writing

\* C8: the first lookup is made holding the read lock, the second lookup and
\* the store holding the write lock; a writer never holds the mutex together
\* with a reader or another writer; the map changes only in a step of the
\* caller that holds the write lock.
C8_CacheGuarded ==
    /\ [](\A c \in Callers :
            /\ AtFirstRead(c) => HoldsRLock(c)
            /\ InWriteSection(c) => HoldsLock(c)
            /\ InWriteSection(c) =>
                 \A d \in Callers \ {c} : ~AtFirstRead(d) /\ ~InWriteSection(d)
            /\ HoldsLock(c) => storageKeyCacheMu.readers = {})
    /\ [][storageKeyCache' # storageKeyCache =>
            \E c \in Callers : HoldsLock(c) /\ calls'[c] # calls[c]]_vars

\* C8 witness: a caller holding the write lock is about to store the key it
\* was answered while another caller waits in RLock for its first lookup.
C8_Witness ==
    \E c, d \in Callers :
        /\ c # d
        /\ calls[c].pc = "answered" /\ HoldsLock(c)
        /\ ListKeysResult(calls[c].accountKeys).store
        /\ calls[d].pc = "rlock"

\* A key list whose first value is a key.
GoodKeys(accountKeys) ==
    /\ ~accountKeys.notFound /\ ~accountKeys.err
    /\ accountKeys.Keys # NilKeys
    /\ Len(accountKeys.Keys) > 0
    /\ accountKeys.Keys[1] # NilValue

\* C9: a call whose index is cached never asks the storage service and
\* returns (the cached key, true, nil); a call whose index is not cached and
\* whose ListKeys succeeds with a first key value stores that value under
\* the index and returns (that value, true, nil).
C9_ReadThrough ==
    /\ [](\A c \in Callers :
            calls[c].pc \in {"listkeys", "answered"}
                => IndexOf(c) \notin DOMAIN storageKeyCache)
    /\ [][\A c \in Callers :
            (calls[c].pc \in {"runlock", "recheck", "answered"}
             /\ calls'[c].pc = "done") =>
                IF IndexOf(c) \in DOMAIN storageKeyCache
                THEN /\ calls'[c].ret = [key |-> storageKeyCache[IndexOf(c)],
                                         accountExists |-> TRUE, err |-> "nil",
                                         listed |-> FALSE]
                     /\ storageKeyCache' = storageKeyCache
                ELSE GoodKeys(calls[c].accountKeys) =>
                     /\ IndexOf(c) \in DOMAIN storageKeyCache'
                     /\ storageKeyCache'[IndexOf(c)] = calls[c].accountKeys.Keys[1]
                     /\ calls'[c].ret = [key |-> calls[c].accountKeys.Keys[1],
                                         accountExists |-> TRUE, err |-> "nil",
                                         listed |-> TRUE]
      ]_vars

\* C9 witness: one call stored the first of two keys it was answered, and
\* another call returned that key without asking the storage service.
C9_Witness ==
    \E c, d \in Callers :
        /\ c # d
        /\ calls[c].pc = "done" /\ calls[c].ret.listed
        /\ calls[c].accountKeys.Keys = <<"k2", "k1">>
        /\ calls[c].ret.key = "k2"
        /\ calls[d].pc = "done" /\ ~calls[d].ret.listed
        /\ calls[d].ret = [key |-> "k2", accountExists |-> TRUE, err |-> "nil",
                           listed |-> FALSE]
        /\ Cardinality(DOMAIN storageKeyCache) = 1

\* C10: a ListKeys response that is 'not found' makes the call return
\* ("", false, nil) and leaves the cache unchanged, also when an error came
\* with the response.
C10_NotFoundWins ==
    [][\A c \in Callers :
        (calls[c].pc = "answered" /\ calls[c].accountKeys.notFound
         /\ calls'[c].pc = "done") =>
            /\ calls'[c].ret = [key |-> "", accountExists |-> FALSE, err |-> "nil",
                                listed |-> TRUE]
            /\ storageKeyCache' = storageKeyCache
      ]_vars

\* C10 witness: a call returned on a 'not found' response that came with an
\* error.
C10_Witness ==
    \E c \in Callers :
        /\ calls[c].pc = "done" /\ calls[c].ret.listed
        /\ calls[c].accountKeys.notFound /\ calls[c].accountKeys.err
        /\ calls[c].ret.err = "nil" /\ ~calls[c].ret.accountExists

\* C11: on a cache miss every failing outcome returns an empty key and
\* leaves storageKeyCache unchanged: a ListKeys error that is not 'not
\* found' returns accountExists = true with an error; a nil key list, an
\* empty key list or a nil first key value returns accountExists = false
\* with an error.
C11_FailuresLeaveCache ==
    [][\A c \in Callers :
        (calls[c].pc = "answered" /\ calls'[c].pc = "done"
         /\ ~calls[c].accountKeys.notFound) =>
            LET accountKeys == calls[c].accountKeys
                ret == calls'[c].ret
            IN  /\ accountKeys.err =>
                     /\ ret = [key |-> "", accountExists |-> TRUE,
                               err |-> "retrieve", listed |-> TRUE]
                     /\ storageKeyCache' = storageKeyCache
                /\ (~accountKeys.err /\ accountKeys.Keys = NilKeys) =>
                     /\ ret = [key |-> "", accountExists |-> FALSE,
                               err |-> "nil_keys", listed |-> TRUE]
                     /\ storageKeyCache' = storageKeyCache
                /\ (~accountKeys.err /\ accountKeys.Keys = <<>>) =>
                     /\ ret = [key |-> "", accountExists |-> FALSE,
                               err |-> "no_keys", listed |-> TRUE]
                     /\ storageKeyCache' = storageKeyCache
                /\ (~accountKeys.err /\ accountKeys.Keys # NilKeys
                    /\ accountKeys.Keys # <<>> /\ accountKeys.Keys[1] = NilValue) =>
                     /\ ret = [key |-> "", accountExists |-> FALSE,
                               err |-> "nil_first", listed |-> TRUE]
                     /\ storageKeyCache' = storageKeyCache
      ]_vars

\* C11 witness: one call returned a ListKeys error with accountExists true,
\* another returned on a nil first key value (a second key followed it) with
\* accountExists false, and nothing was stored.
C11_Witness ==
    \E c, d \in Callers :
        /\ c # d /\ calls[c].pc = "done" /\ calls[d].pc = "done"
        /\ calls[c].ret.listed /\ calls[d].ret.listed
        /\ calls[c].accountKeys.err /\ ~calls[c].accountKeys.notFound
        /\ calls[c].ret.err = "retrieve" /\ calls[c].ret.accountExists
        /\ calls[d].accountKeys.Keys = <<NilValue, "k1">>
        /\ ~calls[d].accountKeys.err /\ ~calls[d].accountKeys.notFound
        /\ calls[d].ret.err = "nil_first" /\ ~calls[d].ret.accountExists
        /\ storageKeyCache = <<>>

\* The call of c returned, or returns in this step, a key for an account
\* that exists, without error.
ReturnedKey(c) ==
    /\ calls[c].pc = "done"
    /\ calls[c].ret.err = "nil" /\ calls[c].ret.accountExists

\* At most one ListKeys call per index completes successfully and populates
\* the cache; a caller that takes the write lock after the key was stored
\* finds it in the second lookup and makes no remote call.
OneListKeysPerIndex ==
    /\ [](\A c, d \in Callers :
            (c # d /\ ReturnedKey(c) /\ ReturnedKey(d) /\ IndexOf(c) = IndexOf(d))
                => ~(calls[c].ret.listed /\ calls[d].ret.listed))
    /\ [][\A c \in Callers :
            /\ (calls[c].pc = "answered" /\ calls'[c].pc = "done"
                /\ calls'[c].ret.err = "nil" /\ calls'[c].ret.accountExists) =>
                  /\ IndexOf(c) \notin DOMAIN storageKeyCache
                  /\ IndexOf(c) \in DOMAIN storageKeyCache'
                  /\ \A i \in DOMAIN storageKeyCache :
                        /\ i \in DOMAIN storageKeyCache'
                        /\ storageKeyCache'[i] = storageKeyCache[i]
            /\ (calls[c].pc = "recheck" /\ calls'[c] # calls[c]
                /\ IndexOf(c) \in DOMAIN storageKeyCache) =>
                  /\ calls'[c].pc = "done"
                  /\ calls'[c].ret = [key |-> storageKeyCache[IndexOf(c)],
                                      accountExists |-> TRUE, err |-> "nil",
                                      listed |-> FALSE]
      ]_vars

\* C12, as stated: of the calls for one account at most one ListKeys call
\* completes successfully and populates the cache, a caller that takes the
\* write lock after the key was stored finds it in the second lookup and
\* makes no remote call, and all callers that return without error return
\* the same key.
C12_ReturnSameKey ==
    /\ OneListKeysPerIndex
    /\ [](\A c, d \in Callers :
            (c # d /\ calls[c].pc = "done" /\ calls[d].pc = "done"
             /\ IndexOf(c) = IndexOf(d)
             /\ calls[c].ret.err = "nil" /\ calls[d].ret.err = "nil")
                => calls[c].ret.key = calls[d].ret.key)

\* C12, amended: as above, but only the callers that return without error
\* and with accountExists = true return the same key (a caller answered
\* 'not found' returns the empty key without error).
C12_ExistingReturnSameKey ==
    /\ OneListKeysPerIndex
    /\ [](\A c, d \in Callers :
            (c # d /\ ReturnedKey(c) /\ ReturnedKey(d) /\ IndexOf(c) = IndexOf(d))
                => calls[c].ret.key = calls[d].ret.key)

\* C12 witness: a caller that missed in its first lookup holds the write
\* lock and is about to look up again, after another caller stored the key
\* of the same account and returned.
C12_Witness ==
    \E c, d \in Callers :
        /\ c # d
        /\ ReturnedKey(c) /\ calls[c].ret.listed
        /\ calls[d].pc = "recheck" /\ HoldsLock(d) /\ ~calls[d].ok
        /\ IndexOf(d) = IndexOf(c)
        /\ IndexOf(d) \in DOMAIN storageKeyCache
        /\ storageKeyCache[IndexOf(d)] = calls[c].ret.key

\* The ListKeys call of c is in flight.
Listing(c) == calls[c].pc = "listkeys"

\* C13: a caller whose ListKeys call is in flight holds the write lock; at
\* most one ListKeys call is in flight at any time; while one is in flight
\* no other caller holds the read lock or is at a lookup, and no other
\* call, whatever its account, looks the map up or returns.
C13_ListKeysExclusive ==
    /\ [](\A c \in Callers : Listing(c) =>
            /\ HoldsLock(c)
            /\ storageKeyCacheMu.readers = {}
            /\ \A d \in Callers \ {c} :
                  /\ ~Listing(d)
                  /\ ~AtFirstRead(d) /\ ~InWriteSection(d))
    /\ [][\A c \in Callers : Listing(c) =>
            \A d \in Callers \ {c} :
                calls'[d].pc \in {"read", "runlock", "recheck", "listkeys", "done"}
                    => calls'[d] = calls[d]
      ]_vars

\* C13 witness: while a ListKeys call for one account is in flight, a call
\* for another account, whose key is cached, waits in RLock.
C13_Witness ==
    \E c, d \in Callers :
        /\ c # d
        /\ Listing(c) /\ HoldsLock(c)
        /\ calls[d].pc = "rlock"
        /\ IndexOf(d) # IndexOf(c)
        /\ IndexOf(d) \in DOMAIN storageKeyCache

\* C14: a caller that requests or waits for the write lock does not hold the
\* read lock; a caller that has returned (or has not called) holds neither
\* lock; and every call that was made returns.
C14_ReleasesAndReturns ==
    /\ [](\A c \in Callers :
            /\ calls[c].pc \in {"lock", "lockwait"} => ~HoldsRLock(c)
            /\ calls[c].pc \in {"idle", "done"} =>
                  (~HoldsRLock(c) /\ storageKeyCacheMu.writer # c))
    /\ \A c \in Callers : (calls[c].pc = "rlock") ~> (calls[c].pc = "done")

\* C14 witness: two callers that both asked the storage service have
\* returned, one of them with the ListKeys error, and the mutex is free.
C14_Witness ==
    \E c, d \in Callers :
        /\ c # d /\ calls[c].pc = "done" /\ calls[d].pc = "done"
        /\ calls[c].ret.listed /\ calls[c].ret.err = "retrieve"
        /\ calls[d].ret.listed
        /\ storageKeyCacheMu = [readers |-> {}, writer |-> 0, writing |-> FALSE]

\* C15: the cache is keyed by the resource group and account names alone.
\* A key that a call on one ArmClient listed and stored is what a call on
\* another ArmClient with the same two names returns, and that call asks no
\* storage service; whatever its ArmClient, a call whose names are cached
\* returns the cached key without a ListKeys call.
C15_SharedAcrossClients ==
    /\ [](\A c, d \in Callers :
            (/\ c # d /\ calls[c].c # calls[d].c
             /\ calls[c].resourceGroupName = calls[d].resourceGroupName
             /\ calls[c].storageAccountName = calls[d].storageAccountName
             /\ ReturnedKey(c) /\ calls[c].ret.listed
             /\ ReturnedKey(d))
                => (calls[d].ret.key = calls[c].ret.key /\ ~calls[d].ret.listed))
    /\ [][\A d \in Callers :
            (calls[d].pc # "done" /\ calls'[d].pc = "done"
             /\ IndexOf(d) \in DOMAIN storageKeyCache) =>
                calls'[d].ret = [key |-> storageKeyCache[IndexOf(d)],
                                 accountExists |-> TRUE, err |-> "nil",
                                 listed |-> FALSE]
      ]_vars

\* C15 witness: a call on the ArmClient of one subscription listed and
\* stored a key, and a call on the ArmClient of another subscription with
\* the same names returned that key without asking.
C15_Witness ==
    \E c, d \in Callers :
        /\ calls[c].c = "sub1" /\ calls[d].c = "sub2"
        /\ calls[c].resourceGroupName = calls[d].resourceGroupName
        /\ calls[c].storageAccountName = calls[d].storageAccountName
        /\ ReturnedKey(c) /\ calls[c].ret.listed
        /\ ReturnedKey(d) /\ ~calls[d].ret.listed
        /\ calls[d].ret.key = calls[c].ret.key

(* ======================= import check, d.SetId, Read =================== *)
\* o has moved in this step.
Stepped(o) == pc'[o] # pc[o]

\* C16: in resourceArmDDoSProtectionPlanCreateUpdate the Get of the import
\* check is made only for a new resource; an existing plan with a non-empty
\* ID makes the handler return the import-as-exists error and a Get error
\* other than 'not found' makes it return an error, in both cases taking no
\* named lock, sending no CreateOrUpdate (the handler has returned for good)
\* and leaving the resource ID as it was; after a 'not found' Get the
\* handler goes on to extractVnetNames and the locks.
C16_ImportCheck ==
    /\ [](\A o \in Ops : (pc[o] = "import" /\ kind[o] = "DDoSCreateUpdate") =>
            /\ HeldBy(o) = {}
            /\ getResponse[o] # NoGet => dId[o] = NoID)
    /\ [][\A o \in Ops :
            /\ pc[o] = "done" => pc'[o] = "done"
            /\ (pc[o] = "import" /\ kind[o] = "DDoSCreateUpdate" /\ Stepped(o)) =>
                LET existing == getResponse[o]
                IN  /\ (~existing.err /\ existing.ID # NilID /\ existing.ID # NoID) =>
                          /\ pc'[o] = "done" /\ err'[o] = "import_exists"
                          /\ armMutexKV' = armMutexKV
                          /\ dId'[o] = dId[o]
                    /\ (existing.err /\ ~existing.notFound) =>
                          /\ pc'[o] = "done" /\ err'[o] = "import_get"
                          /\ armMutexKV' = armMutexKV
                          /\ dId'[o] = dId[o]
                    /\ (existing.err /\ existing.notFound) =>
                          \/ pc'[o] = "lock_plan"
                          \/ pc'[o] = "done" /\ err'[o] = "extract"
      ]_vars

\* C16 witness: one new plan was refused because it exists, another because
\* the Get of the import check failed; no lock is held and both IDs are
\* still empty.
C16_Witness ==
    \E o, p \in Ops :
        /\ kind[o] = "DDoSCreateUpdate" /\ kind[p] = "DDoSCreateUpdate"
        /\ pc[o] = "done" /\ err[o] = "import_exists" /\ dId[o] = NoID
        /\ pc[p] = "done" /\ err[p] = "import_get" /\ dId[p] = NoID
        /\ \A k \in LockKeys : armMutexKV[k] = 0

IsCreateUpdate(o) == kind[o] \in {"DDoSCreateUpdate", "AACreateUpdate"}

\* What a CreateUpdate handler returns before it reaches d.SetId.
EarlyErrors == {"import_get", "import_exists", "extract", "call", "poll",
                "retrieve", "nil_id"}

\* The position from which a CreateUpdate handler runs the Get, d.SetId and
\* the trailing Read: the polling of the plan's future has ended, the
\* CreateOrUpdate of the account has answered.
BeforeSetId(o) ==
    pc[o] = IF kind[o] = "DDoSCreateUpdate" THEN "poll" ELSE "inflight"

\* C17: a CreateUpdate handler changes the resource ID only in the step that
\* follows the successful CreateOrUpdate (for the plan: its polling), and
\* then to an ID that is not nil; a handler that returns from anywhere
\* earlier returns one of the errors that precede d.SetId; a return with
\* such an error leaves the ID as it was on entry.
C17_SetIdAfterSuccess ==
    [][\A o \in Ops : IsCreateUpdate(o) =>
        /\ dId'[o] # dId[o] =>
              /\ BeforeSetId(o) /\ pc'[o] = "done"
              /\ err'[o] \notin EarlyErrors
              /\ dId'[o] # NilID
        /\ (pc'[o] = "done" /\ pc[o] # "done" /\ ~BeforeSetId(o)) =>
              err'[o] \in EarlyErrors
        /\ (pc'[o] = "done" /\ pc[o] # "done" /\ err'[o] \in EarlyErrors) =>
              dId'[o] = dId[o]
      ]_vars

\* C17 witness: a CreateUpdate of a plan has set the ID and read the plan
\* back, and a CreateUpdate of an account whose Get after CreateOrUpdate
\* failed has returned the error with the ID still empty.
C17_Witness ==
    \E o, p \in Ops :
        /\ kind[o] = "DDoSCreateUpdate" /\ pc[o] = "done"
        /\ err[o] = "nil" /\ dId[o] \in {PlanID(n) : n \in PlanNames}
        /\ attrs[o] = "read"
        /\ kind[p] = "AACreateUpdate" /\ pc[p] = "done"
        /\ err[p] = "retrieve" /\ dId[p] = NoID

\* C18: resourceArmDDoSProtectionPlanRead returns the parse error of an
\* unparsable ID without calling Get; on a 'not found' answer it clears the
\* resource ID and returns nil; on any other Get error it returns an error
\* and leaves the ID and the attributes as they were.
C18_ReadNotFound ==
    [][\A o \in Ops : (kind[o] = "DDoSRead" /\ Stepped(o)) =>
        /\ pc[o] = "read" =>
              IF parseAzureResourceID(dId[o]).err
              THEN /\ pc'[o] = "done" /\ err'[o] = "parse"
                   /\ dId'[o] = dId[o] /\ attrs'[o] = attrs[o]
              ELSE pc'[o] = "read_get"
        /\ (pc[o] = "read_get" /\ getResponse[o].err) =>
              IF getResponse[o].notFound
              THEN pc'[o] = "done" /\ err'[o] = "nil" /\ dId'[o] = NoID
              ELSE /\ pc'[o] = "done" /\ err'[o] = "read"
                   /\ dId'[o] = dId[o] /\ attrs'[o] = attrs[o]
      ]_vars

\* C18 witness: one Read found its plan gone and removed it from state,
\* another returned the error of its Get and kept its ID and attributes.
C18_Witness ==
    \E o, p \in Ops :
        /\ kind[o] = "DDoSRead" /\ pc[o] = "done"
        /\ err[o] = "nil" /\ dId[o] = NoID
        /\ kind[p] = "DDoSRead" /\ pc[p] = "done"
        /\ err[p] = "read" /\ dId[p] \in {PlanID(n) : n \in PlanNames}
        /\ attrs[p] = "entry"

====
